---- MODULE Spec2Model ----
(***************************************************************************)
(* A model of ToyCompiler.py: an interactive integer calculator made of a  *)
(* Lexer, a recursive-descent Parser building an AST, and a tree-walking   *)
(* Interpreter, driven by the read loop main().                            *)
(*                                                                         *)
(* Input text is a sequence of one-character strings.  Python's None is    *)
(* the string "None", which is no character.  A raised exception is a      *)
(* record of its class and its args; NoExc means nothing was raised.       *)
(***************************************************************************)
EXTENDS Integers, Sequences, FiniteSets, TLC

VARIABLES
    pc,          \* position of the running code (driver loop, lexer client, evaluator client)
    text,        \* the input line handed to Lexer(text); empty while none is being processed
    lexer,       \* the Lexer object: text, position, curr_char
    curr_token,  \* the token last returned by get_next_token (Parser.curr_token)
    tree,        \* the AST root returned by Parser.parse()
    re,          \* the value returned by interpret() / visit()
    exc,         \* the exception in flight
    out,         \* what the driver printed for the current line
    calls        \* number of get_next_token() calls made by the lexer client

vars == <<pc, text, lexer, curr_token, tree, re, exc, out, calls>>

-----------------------------------------------------------------------------
(* Bounds of the model *)

\* longest input line over the full alphabet
MaxLen == 3

\* longest well-formed expression evaluated on its own
MaxExprLen == 5

\* most AST nodes of a tree handed directly to the evaluator
MaxNodes == 5

\* largest integer literal of a tree handed directly to the evaluator
MaxLit == 3

\* longest run of blanks put into a line
MaxBlanks == 2

-----------------------------------------------------------------------------
(* Characters *)

None == "None"

Digits == {"0", "1", "2"}

Spaces == {" "}

OpChars == {"+", "-", "*", "/", "(", ")"}

\* a character the lexer does not recognise
BadChars == {"$"}

ExprAlphabet == Digits \cup OpChars

Alphabet == ExprAlphabet \cup Spaces \cup BadChars

isdigit(c) == c \in Digits

isspace(c) == c \in Spaces

int(c) == CASE c = "0" -> 0 [] c = "1" -> 1 [] c = "2" -> 2

-----------------------------------------------------------------------------
(* Tokens *)

PLUS == "PLUS"
MINUS == "MINUS"
MUL == "MUL"
DIV == "DIV"
L_PAR == "("
R_PAR == ")"
INTEGER == "INTEGER"
END == "END"

Token(type, content) == [type |-> type, content |-> content]

NoToken == [type |-> "NoToken", content |-> None]

-----------------------------------------------------------------------------
(* Exceptions *)

NoExc == [type |-> "none", args |-> <<>>]

Exception(msg) == [type |-> "Exception", args |-> <<msg>>]

\* sys.exit(1)
SystemExit == [type |-> "SystemExit", args |-> <<"1">>]

-----------------------------------------------------------------------------
(* Part I - Lexer *)

NoLexer == [text |-> <<>>, position |-> 0, curr_char |-> None]

Lexer(t) == [text |-> t, position |-> 0, curr_char |-> t[1]]

forward(lx) ==
    LET p == lx.position + 1
    IN  IF p > Len(lx.text) - 1
        THEN [lx EXCEPT !.position = p, !.curr_char = None]
        ELSE [lx EXCEPT !.position = p, !.curr_char = lx.text[p + 1]]

RECURSIVE get_integer_from(_, _)
get_integer_from(lx, temp) ==
    IF lx.curr_char # None /\ isdigit(lx.curr_char)
    THEN get_integer_from(forward(lx), temp * 10 + int(lx.curr_char))
    ELSE [value |-> temp, lexer |-> lx]

get_integer(lx) == get_integer_from(lx, 0)

\* skip_whitespace() that drops the blank and the character after it
skip_whitespace_and_next(lx) == forward(forward(lx))

RECURSIVE skip_whitespace(_)
skip_whitespace(lx) ==
    IF lx.curr_char # None /\ isspace(lx.curr_char)
    THEN skip_whitespace(forward(lx))
    ELSE lx

\* The outcome of get_next_token(): the token it returned (or the exception it
\* raised) and the Lexer's state afterwards.
Returned(tok, lx) == [token |-> tok, lexer |-> lx, exc |-> NoExc]

Raised(e, lx) == [token |-> NoToken, lexer |-> lx, exc |-> e]

\* str(n) of a small offset
str(n) == CASE n = 0 -> "0" [] n = 1 -> "1" [] n = 2 -> "2" [] n = 3 -> "3" [] n = 4 -> "4"
            [] n = 5 -> "5" [] n = 6 -> "6" [] n = 7 -> "7" [] n = 8 -> "8" [] n = 9 -> "9"

\* raise_error() that names the character under the cursor and its offset
Lexer_raise_error_located(lx) ==
    Raised([type |-> "Exception", args |-> <<lx.curr_char, str(lx.position)>>], lx)

Lexer_raise_error(lx) == Raised(Exception("Input character is invalid"), lx)

\* the END token handed out like a one-character token, the cursor moved on
end_of_text_advancing(lx) == Returned(Token(END, None), forward(lx))

\* return Token(END, None), once the while loop is over
end_of_text(lx) == Returned(Token(END, None), lx)

RECURSIVE get_next_token(_)
get_next_token(lx) ==
    LET c == lx.curr_char
    IN  IF c = None THEN end_of_text(lx)
        ELSE IF isspace(c) THEN get_next_token(skip_whitespace(lx))
        ELSE IF c = "+" THEN Returned(Token(PLUS, "+"), forward(lx))
        ELSE IF c = "-" THEN Returned(Token(MINUS, "-"), forward(lx))
        ELSE IF c = "*" THEN Returned(Token(MUL, "*"), forward(lx))
        ELSE IF c = "/" THEN Returned(Token(DIV, "/"), forward(lx))
        ELSE IF isdigit(c)
             THEN LET g == get_integer(lx)
                  IN  Returned(Token(INTEGER, g.value), g.lexer)
        ELSE IF c = "(" THEN Returned(Token(L_PAR, "("), forward(lx))
        ELSE IF c = ")" THEN Returned(Token(R_PAR, ")"), forward(lx))
        ELSE Lexer_raise_error(lx)

-----------------------------------------------------------------------------
(* Part II - Parser *)

\* Python's None where an AST node is expected
NoneNode == [class |-> "NoneType"]

UnaryOperator(operator, expression) ==
    [class |-> "UnaryOperator", operator |-> operator, expression |-> expression]

BinaryOperator(left, operator, right) ==
    [class |-> "BinaryOperator", left |-> left, operator |-> operator, right |-> right]

Numbers(token) == [class |-> "Numbers", token |-> token, content |-> token.content]

\* The outcome of a Parser method: the node it returned (or the exception it
\* raised) and the Parser's state afterwards.
PReturned(node, lx, tok) ==
    [node |-> node, lexer |-> lx, curr_token |-> tok, exc |-> NoExc]

PRaised(e, lx, tok) ==
    [node |-> NoneNode, lexer |-> lx, curr_token |-> tok, exc |-> e]

Parser_raise_error == Exception("Found a syntax error of input text")

\* Parser.__init__: pulls the first token
Parser(lx) ==
    LET r == get_next_token(lx)
    IN  IF r.exc # NoExc THEN PRaised(r.exc, r.lexer, NoToken)
        ELSE PReturned(NoneNode, r.lexer, r.token)

ignore(p, token_type) ==
    IF p.curr_token.type = token_type
    THEN LET r == get_next_token(p.lexer)
         IN  IF r.exc # NoExc THEN PRaised(r.exc, r.lexer, p.curr_token)
             ELSE PReturned(NoneNode, r.lexer, r.token)
    ELSE PRaised(Parser_raise_error, p.lexer, p.curr_token)

\* what factor() returns when no branch of its if/elif chain is taken
factor_fallthrough(p) == PReturned(NoneNode, p.lexer, p.curr_token)

RECURSIVE factor(_), term(_), expression(_)

\* node = UnaryOperator(token, self.factor()); return node
factor_unary_node(token, f) ==
    IF f.exc # NoExc THEN f
    ELSE PReturned(UnaryOperator(token, f.node), f.lexer, f.curr_token)

\* factor() whose sign takes a whole term as its operand
factor_unary_of_term(token, i) ==
    IF i.exc # NoExc THEN i ELSE factor_unary_node(token, term(i))

\* the PLUS and MINUS branches of factor(), after self.ignore(...)
factor_unary(token, i) ==
    IF i.exc # NoExc THEN i ELSE factor_unary_node(token, factor(i))

\* the INTEGER branch of factor(), after self.ignore(INTEGER)
factor_integer(token, i) ==
    IF i.exc # NoExc THEN i ELSE PReturned(Numbers(token), i.lexer, i.curr_token)

\* the L_PAR branch of factor(): return node, after self.ignore(R_PAR)
factor_paren_node(node, j) ==
    IF j.exc # NoExc THEN j ELSE PReturned(node, j.lexer, j.curr_token)

\* the L_PAR branch of factor(): self.ignore(R_PAR), after node = self.expression()
factor_paren_close(e) ==
    IF e.exc # NoExc THEN e ELSE factor_paren_node(e.node, ignore(e, R_PAR))

\* the L_PAR branch of factor(), after self.ignore(L_PAR)
factor_paren(i) ==
    IF i.exc # NoExc THEN i ELSE factor_paren_close(expression(i))

factor(p) ==
    IF p.curr_token.type = PLUS THEN factor_unary(p.curr_token, ignore(p, PLUS))
    ELSE IF p.curr_token.type = MINUS THEN factor_unary(p.curr_token, ignore(p, MINUS))
    ELSE IF p.curr_token.type = INTEGER THEN factor_integer(p.curr_token, ignore(p, INTEGER))
    ELSE IF p.curr_token.type = L_PAR THEN factor_paren(ignore(p, L_PAR))
    ELSE factor_fallthrough(p)

RECURSIVE term_loop(_, _), term_loop_node(_, _, _)

\* the body of term()'s while loop, after self.ignore(...)
term_loop_right(node, token, i) ==
    IF i.exc # NoExc THEN i ELSE term_loop_node(node, token, factor(i))

\* node = BinaryOperator(left=node, operator=token, right=self.factor())
term_loop_node(node, token, f) ==
    IF f.exc # NoExc THEN f
    ELSE term_loop(BinaryOperator(node, token, f.node), f)

\* while self.curr_token.type == MUL or self.curr_token.type == DIV
term_loop(node, p) ==
    IF p.curr_token.type = MUL \/ p.curr_token.type = DIV
    THEN IF p.curr_token.type = MUL
         THEN term_loop_right(node, p.curr_token, ignore(p, MUL))
         ELSE term_loop_right(node, p.curr_token, ignore(p, DIV))
    ELSE PReturned(node, p.lexer, p.curr_token)

\* term(), after node = self.factor()
term_first(f) == IF f.exc # NoExc THEN f ELSE term_loop(f.node, f)

term(p) == term_first(factor(p))

RECURSIVE expression_loop(_, _), expression_loop_node(_, _, _)

\* the body of expression()'s while loop, after self.ignore(...)
expression_loop_right(node, token, i) ==
    IF i.exc # NoExc THEN i ELSE expression_loop_node(node, token, term(i))

\* node = BinaryOperator(left=node, operator=token, right=self.term())
expression_loop_node(node, token, t) ==
    IF t.exc # NoExc THEN t
    ELSE expression_loop(BinaryOperator(node, token, t.node), t)

\* while self.curr_token.type == PLUS or self.curr_token.type == MINUS
expression_loop(node, p) ==
    IF p.curr_token.type = PLUS \/ p.curr_token.type = MINUS
    THEN IF p.curr_token.type = PLUS
         THEN expression_loop_right(node, p.curr_token, ignore(p, PLUS))
         ELSE expression_loop_right(node, p.curr_token, ignore(p, MINUS))
    ELSE PReturned(node, p.lexer, p.curr_token)

\* expression(), after node = self.term()
expression_first(t) == IF t.exc # NoExc THEN t ELSE expression_loop(t.node, t)

expression(p) == expression_first(term(p))

\* parse() without its check of the lookahead
parse_end_check_dropped(root) == root

\* the check parse() makes once the top-level expression is built
parse_end_check(root) ==
    IF root.curr_token.type # END
    THEN PRaised(Parser_raise_error, root.lexer, root.curr_token)
    ELSE root

\* parse(), after root = self.expression()
parse_root(root) == IF root.exc # NoExc THEN root ELSE parse_end_check(root)

parse(p) == parse_root(expression(p))

-----------------------------------------------------------------------------
(* Part III - Interpreter *)

\* Python values, each with its type
PyInt(n) == [type |-> "int", int |-> n]

PyStr(s) == [type |-> "str", str |-> s]

PyNone == [type |-> "NoneType"]

VReturned(v) == [value |-> v, exc |-> NoExc]

VRaised(e) == [value |-> PyNone, exc |-> e]

ZeroDivisionError == [type |-> "ZeroDivisionError", args |-> <<"integer division or modulo by zero">>]

\* l // r that rounds toward zero, as C's / does
floordiv_truncating(l, r) ==
    IF r = 0 THEN VRaised(ZeroDivisionError)
    ELSE IF (l < 0) = (r < 0) THEN VReturned(PyInt(l \div r))
    ELSE VReturned(PyInt(-((-l) \div r)))

\* Python's l // r on ints
floordiv(l, r) == IF r = 0 THEN VRaised(ZeroDivisionError) ELSE VReturned(PyInt(l \div r))

\* except ZeroDivisionError: print("The denominator should not be zero"); sys.exit(1)
except_ZeroDivisionError(r) ==
    IF r.exc.type = "ZeroDivisionError" THEN VRaised(SystemExit) ELSE r

visit_error(node) == VRaised(Exception("No such a method called visit_NoneType"))

visit_Numbers(node) == VReturned(PyInt(node.content))

\* binary_result with a product that does not look at its right operand once
\* the left one is 0
binary_result_lazy_product(op, l, r) ==
    IF l.exc # NoExc THEN l
    ELSE IF op = MUL /\ l.value.int = 0 THEN VReturned(PyInt(0))
    ELSE IF r.exc # NoExc THEN r
    ELSE IF op = PLUS THEN VReturned(PyInt(l.value.int + r.value.int))
    ELSE IF op = MINUS THEN VReturned(PyInt(l.value.int - r.value.int))
    ELSE IF op = MUL THEN VReturned(PyInt(l.value.int * r.value.int))
    ELSE floordiv(l.value.int, r.value.int)

\* the arithmetic of visit_BinaryOperator, its operands evaluated left to right
binary_result(op, l, r) ==
    IF l.exc # NoExc THEN l
    ELSE IF r.exc # NoExc THEN r
    ELSE IF op = PLUS THEN VReturned(PyInt(l.value.int + r.value.int))
    ELSE IF op = MINUS THEN VReturned(PyInt(l.value.int - r.value.int))
    ELSE IF op = MUL THEN VReturned(PyInt(l.value.int * r.value.int))
    ELSE floordiv(l.value.int, r.value.int)

\* +x and -x of visit_UnaryOperator
unary_result(op, e) ==
    IF e.exc # NoExc THEN e
    ELSE IF op = PLUS THEN VReturned(PyInt(e.value.int))
    ELSE VReturned(PyInt(-e.value.int))

RECURSIVE visit(_)

visit_BinaryOperator(node) ==
    IF node.operator.type = PLUS
    THEN binary_result(PLUS, visit(node.left), visit(node.right))
    ELSE IF node.operator.type = MINUS
    THEN binary_result(MINUS, visit(node.left), visit(node.right))
    ELSE IF node.operator.type = MUL
    THEN binary_result(MUL, visit(node.left), visit(node.right))
    ELSE IF node.operator.type = DIV
    THEN except_ZeroDivisionError(
             binary_result(DIV, visit(node.left), visit(node.right)))
    ELSE VReturned(PyNone)

visit_UnaryOperator(node) ==
    IF node.operator.type = PLUS
    THEN unary_result(PLUS, visit(node.expression))
    ELSE IF node.operator.type = MINUS
    THEN unary_result(MINUS, visit(node.expression))
    ELSE VReturned(PyNone)

visit(node) ==
    IF node.class = "BinaryOperator" THEN visit_BinaryOperator(node)
    ELSE IF node.class = "Numbers" THEN visit_Numbers(node)
    ELSE IF node.class = "UnaryOperator" THEN visit_UnaryOperator(node)
    ELSE visit_error(node)

\* the part of interpret() after parse() has returned tree
interpret_tree(t) == IF t = NoneNode THEN VReturned(PyStr("")) ELSE visit(t)

-----------------------------------------------------------------------------
(* Input lines *)

TextsOver(A, n) == UNION {[1..k -> A] : k \in 1..n}

\* the lines typed at the prompt: every line over the full alphabet up to MaxLen
\* characters, and every line of digits, operators and parentheses one longer
Texts == TextsOver(Alphabet, MaxLen) \cup TextsOver(ExprAlphabet, MaxLen + 1)

-----------------------------------------------------------------------------
(* Part IV - main(): the read loop *)

\* a line written to standard output: its fixed text and the value formatted into it
Printed(line, value) == [line |-> line, value |-> value]

NoOutput == Printed("", PyNone)

Init ==
    /\ pc = "input"
    /\ text = <<>>
    /\ lexer = NoLexer
    /\ curr_token = NoToken
    /\ tree = NoneNode
    /\ re = PyNone
    /\ exc = NoExc
    /\ out = NoOutput
    /\ calls = 0

\* text = input('calculator> ') returns a non-empty line
ReadLine ==
    /\ pc = "input"
    /\ \E t \in Texts : text' = t
    /\ pc' = "Lexer"
    /\ UNCHANGED <<lexer, curr_token, tree, re, exc, out, calls>>

\* input() returns an empty line: continue
ReadEmptyLine ==
    /\ pc = "input"
    /\ text' = <<>>
    /\ pc' = "input"
    /\ UNCHANGED <<lexer, curr_token, tree, re, exc, out, calls>>

\* input() raises EOFError: break, and main() returns
ReadEOF ==
    /\ pc = "input"
    /\ pc' = "terminated"
    /\ UNCHANGED <<text, lexer, curr_token, tree, re, exc, out, calls>>

\* lexer = Lexer(text)
MakeLexer ==
    /\ pc = "Lexer"
    /\ lexer' = Lexer(text)
    /\ pc' = "Parser"
    /\ UNCHANGED <<text, curr_token, tree, re, exc, out, calls>>

\* parser = Parser(lexer); interpreter = Interpreter(parser)
\* An exception leaves main() uncaught and ends the process.
MakeParser ==
    /\ pc = "Parser"
    /\ LET p == Parser(lexer)
       IN  /\ lexer' = p.lexer
           /\ curr_token' = p.curr_token
           /\ exc' = p.exc
           /\ pc' = IF p.exc # NoExc THEN "terminated" ELSE "interpret"
    /\ UNCHANGED <<text, tree, re, out, calls>>

\* InterpretParse inside a try/except that drops the line and goes on
InterpretParse_caught ==
    /\ pc = "interpret"
    /\ LET p == parse([lexer |-> lexer, curr_token |-> curr_token])
       IN  /\ lexer' = p.lexer
           /\ curr_token' = p.curr_token
           /\ tree' = p.node
           /\ exc' = p.exc
           /\ pc' = IF p.exc # NoExc THEN "while" ELSE "visit"
    /\ UNCHANGED <<text, re, out, calls>>

\* interpreter.interpret(), first statement: tree = self.parser.parse()
InterpretParse ==
    /\ pc = "interpret"
    /\ LET p == parse([lexer |-> lexer, curr_token |-> curr_token])
       IN  /\ lexer' = p.lexer
           /\ curr_token' = p.curr_token
           /\ tree' = p.node
           /\ exc' = p.exc
           /\ pc' = IF p.exc # NoExc THEN "terminated" ELSE "visit"
    /\ UNCHANGED <<text, re, out, calls>>

\* interpreter.interpret(), the rest: '' for an empty tree, else visit(tree);
\* re = the value returned.  The ZeroDivisionError handler prints before it exits.
InterpretVisit ==
    /\ pc = "visit"
    /\ LET v == interpret_tree(tree)
       IN  /\ re' = v.value
           /\ exc' = v.exc
           /\ out' = IF v.exc = SystemExit
                     THEN Printed("The denominator should not be zero", PyNone) ELSE out
           /\ pc' = IF v.exc # NoExc THEN "terminated" ELSE "print"
    /\ UNCHANGED <<text, lexer, curr_token, tree, calls>>

\* print('result is: {re}'.format(re=re))
PrintResult ==
    /\ pc = "print"
    /\ out' = Printed("result is: ", re)
    /\ pc' = "while"
    /\ UNCHANGED <<text, lexer, curr_token, tree, re, exc, calls>>

\* back to the head of while True: the names text, lexer, parser, interpreter
\* and re are all rebound before they are read again
NextIteration ==
    /\ pc = "while"
    /\ pc' = "input"
    /\ text' = <<>>
    /\ lexer' = NoLexer
    /\ curr_token' = NoToken
    /\ tree' = NoneNode
    /\ re' = PyNone
    /\ out' = NoOutput
    /\ UNCHANGED <<exc, calls>>

Next ==
    \/ ReadLine
    \/ ReadEmptyLine
    \/ ReadEOF
    \/ MakeLexer
    \/ MakeParser
    \/ InterpretParse
    \/ InterpretVisit
    \/ PrintResult
    \/ NextIteration

Spec == Init /\ [][Next]_vars

-----------------------------------------------------------------------------
(* Properties of the read loop *)

\* the tokens get_next_token() yields for a text, up to END or to the first error
RECURSIVE TokensFrom(_)
TokensFrom(lx) ==
    LET r == get_next_token(lx)
    IN  IF r.exc # NoExc THEN <<[type |-> "ERROR", content |-> None]>>
        ELSE IF r.token.type = END THEN <<>>
        ELSE <<r.token>> \o TokensFrom(r.lexer)

Tokens(t) == TokensFrom(Lexer(t))

\* parenthesis depth in front of token i
RECURSIVE Depth(_, _)
Depth(ts, i) ==
    IF i = 1 THEN 0
    ELSE Depth(ts, i - 1)
         + (IF ts[i - 1].type = L_PAR THEN 1 ELSE IF ts[i - 1].type = R_PAR THEN -1 ELSE 0)

\* every ")" closes an earlier "(" and every "(" is closed
Balanced(ts) ==
    /\ \A i \in 1..(Len(ts) + 1) : Depth(ts, i) >= 0
    /\ Depth(ts, Len(ts) + 1) = 0

\* a None stands somewhere in the tree where factor() had to supply a node
RECURSIVE HasNone(_)
HasNone(t) ==
    IF t.class = "NoneType" THEN TRUE
    ELSE IF t.class = "UnaryOperator" THEN HasNone(t.expression)
    ELSE IF t.class = "BinaryOperator" THEN HasNone(t.left) \/ HasNone(t.right)
    ELSE FALSE

\* the exception Lexer.raise_error() raises
LexicalError == Exception("Input character is invalid")

\* a line has been read and is being processed, or was processed last
IsLine == text # <<>>

\* C1: when a factor is required and the lookahead is none of '+', '-',
\* INTEGER, '(' , parse() raises a syntax error: it never returns normally, so
\* no tree handed to the evaluator has a None where a factor was required.
C1_MissingFactorIsSyntaxError == (pc = "visit") => ~HasNone(tree)

\* C2: whenever interpret() returns normally, the value the driver is about
\* to print after 'result is: ' is an integer.
C2_ResultIsInteger == (pc = "print") => re.type = "int"

\* C4 as stated: a lexical or a syntax error does not end the process.
C4_LexSyntaxErrorNotFatal ==
    (pc = "terminated") => exc \notin {LexicalError, Parser_raise_error}

\* C4 as amended: main() catches nothing, so a lexical or a syntax error raised
\* while a line is processed ends the process like a division by zero does: no
\* exception is ever in flight while the loop goes on, and nothing runs after
\* the process has ended.
C4_ErrorsAreFatal ==
    /\ [](exc # NoExc => pc = "terminated")
    /\ [][pc # "terminated"]_vars

\* the process has ended on the syntax error of the line "1)"
C4_Witness ==
    /\ pc = "terminated"
    /\ text = <<"1", ")">>
    /\ exc = Parser_raise_error

\* the state of the Parser once Parser(Lexer(text)) has pulled the first token
FirstLookahead(t) == Parser(Lexer(t))

\* an operand (a literal or a closing parenthesis) is directly followed by the
\* start of another one, with no operator between them
Juxtaposed(ts) ==
    \E i \in 1..(Len(ts) - 1) :
        ts[i].type \in {INTEGER, R_PAR} /\ ts[i + 1].type \in {INTEGER, L_PAR}

Insert(t, k, w) == SubSeq(t, 1, k) \o w \o SubSeq(t, k + 1, Len(t))

\* the places of t that are not inside a run of digits
TokenBoundaries(t) ==
    {k \in 0..Len(t) : ~(k >= 1 /\ k < Len(t) /\ isdigit(t[k]) /\ isdigit(t[k + 1]))}

\* runs of 1..MaxBlanks whitespace characters
BlankRuns == TextsOver(Spaces, MaxBlanks)

SameToken(a, b) ==
    /\ a.type = b.type
    /\ (a.type = INTEGER => a.content = b.content)

SameTokens(as, bs) ==
    /\ Len(as) = Len(bs)
    /\ \A i \in 1..Len(as) : SameToken(as[i], bs[i])

\* what interpret() does once parse() is over
AfterParse(r) == IF r.exc # NoExc THEN VRaised(r.exc) ELSE interpret_tree(r.node)

\* what the loop body does once Parser(lexer) is over
AfterParser(p) == IF p.exc # NoExc THEN VRaised(p.exc) ELSE AfterParse(parse(p))

\* the outcome of Lexer -> Parser -> interpret() on the line t: the value
\* returned, or the exception raised
RunLine(t) == AfterParser(Parser(Lexer(t)))

\* C9: a run of blanks put at a token boundary of the line changes neither the
\* tokens the Lexer yields nor the outcome of the line (value or exception).
C9_WhitespaceInsignificant ==
    (pc \in {"print", "terminated"} /\ IsLine)
        => LET ts == Tokens(text)
               outcome == [value |-> re, exc |-> exc]
           IN  \A k \in TokenBoundaries(text) : \A w \in BlankRuns :
                   /\ SameTokens(Tokens(Insert(text, k, w)), ts)
                   /\ RunLine(Insert(text, k, w)) = outcome

\* "1+2" has been evaluated to 3, as " 1+2", "1 +2", "1+ 2" and "1+2 " are
C9_Witness ==
    /\ pc = "print"
    /\ text = <<"1", "+", "2">>
    /\ re = PyInt(3)
    /\ RunLine(<<"1", " ", "+", "2">>).value = PyInt(3)

-----------------------------------------------------------------------------
(* A client of one Lexer that keeps calling get_next_token() *)

LexInit ==
    /\ pc = "lexing"
    /\ text \in TextsOver(Alphabet, MaxLen)
    /\ lexer = Lexer(text)
    /\ curr_token = NoToken
    /\ tree = NoneNode
    /\ re = PyNone
    /\ exc = NoExc
    /\ out = NoOutput
    /\ calls = 0

CallGetNextToken ==
    /\ pc = "lexing"
    /\ calls < MaxLen + 2
    /\ LET r == get_next_token(lexer)
       IN  /\ lexer' = r.lexer
           /\ curr_token' = r.token
           /\ exc' = r.exc
    /\ calls' = calls + 1
    /\ UNCHANGED <<pc, text, tree, re, out>>

LexNext == CallGetNextToken

LexSpec == LexInit /\ [][LexNext]_vars

\* the first character at or after the cursor that is not whitespace, or None
NextSignificant(lx) ==
    LET rest == {i \in (lx.position + 1)..Len(lx.text) : lx.text[i] \notin Spaces}
    IN  IF rest = {} THEN None
        ELSE lx.text[CHOOSE i \in rest : \A j \in rest : i <= j]

Recognised == Spaces \cup Digits \cup OpChars

\* C3 as stated: the lexical error carries the offending character and its
\* 0-based offset in the text.
C3_ErrorCarriesCharAndOffset ==
    (pc = "lexing" /\ exc # NoExc)
        => /\ \E i \in DOMAIN exc.args : exc.args[i] = lexer.curr_char
           /\ \E i \in DOMAIN exc.args : exc.args[i] = str(lexer.position)

\* C3 as amended: a call of get_next_token() that meets a character which is
\* not whitespace, a digit or one of + - * / ( ) raises an Exception whose only
\* argument is the fixed message 'Input character is invalid' (it names
\* neither the character nor its offset) and leaves the cursor on that
\* character; a call that meets any other character, or the end, raises nothing.
C3_FixedMessageError ==
    [][ IF NextSignificant(lexer) \notin Recognised \cup {None}
        THEN /\ exc' = [type |-> "Exception", args |-> <<"Input character is invalid">>]
             /\ lexer'.curr_char = NextSignificant(lexer)
             /\ lexer'.text[lexer'.position + 1] = lexer'.curr_char
        ELSE exc' = NoExc ]_vars

\* the second call on "1$" has raised with the cursor on "$" at offset 1
C3_Witness ==
    /\ pc = "lexing"
    /\ text = <<"1", "$">>
    /\ calls = 2
    /\ exc.type = "Exception"
    /\ lexer.position = 1

\* C10: once get_next_token() has returned END, every later call returns END
\* again, raises nothing and leaves position and curr_char as they are; and no
\* call ever moves the position backwards.
C10_EndIsSticky ==
    /\ [][ curr_token.type = END
              => (curr_token'.type = END /\ exc' = NoExc /\ lexer' = lexer) ]_vars
    /\ [][ lexer'.position >= lexer.position ]_vars

\* on "1" the second and the third call have both returned END
C10_Witness ==
    /\ pc = "lexing"
    /\ text = <<"1">>
    /\ calls = 3
    /\ curr_token.type = END
    /\ lexer.position = 1

-----------------------------------------------------------------------------
(* A client of the evaluator: visit() applied to a well-formed AST *)

OpToken(op) ==
    CASE op = PLUS -> Token(PLUS, "+")
      [] op = MINUS -> Token(MINUS, "-")
      [] op = MUL -> Token(MUL, "*")
      [] op = DIV -> Token(DIV, "/")

\* the well-formed trees of exactly n nodes, over the literals 0..MaxLit
RECURSIVE TreesOfSize(_)
TreesOfSize(n) ==
    IF n = 1
    THEN {Numbers(Token(INTEGER, v)) : v \in 0..MaxLit}
    ELSE LET smaller == [k \in 1..(n - 1) |-> TreesOfSize(k)]
         IN  {UnaryOperator(OpToken(op), e) : op \in {PLUS, MINUS}, e \in smaller[n - 1]}
             \cup UNION {{BinaryOperator(l, OpToken(op), r) :
                              op \in {PLUS, MINUS, MUL, DIV},
                              l \in smaller[k], r \in smaller[n - 1 - k]} :
                         k \in 1..(n - 2)}

\* t is a well-formed tree of exactly n nodes
IsTreeOfSize(t, n) ==
    \/ /\ n = 1
       /\ \E v \in 0..MaxLit : t = Numbers(Token(INTEGER, v))
    \/ /\ n > 1
       /\ \E op \in {PLUS, MINUS} : \E e \in TreesOfSize(n - 1) :
              t = UnaryOperator(OpToken(op), e)
    \/ \E k \in 1..(n - 2) : \E op \in {PLUS, MINUS, MUL, DIV} :
          \E l \in TreesOfSize(k) : \E r \in TreesOfSize(n - 1 - k) :
              t = BinaryOperator(l, OpToken(op), r)

EvalInit ==
    /\ pc = "tree"
    /\ \E n \in 1..MaxNodes : IsTreeOfSize(tree, n)
    /\ text = <<>>
    /\ lexer = NoLexer
    /\ curr_token = NoToken
    /\ re = PyNone
    /\ exc = NoExc
    /\ out = NoOutput
    /\ calls = 0

VisitTree ==
    /\ pc = "tree"
    /\ LET v == visit(tree)
       IN  /\ re' = v.value
           /\ exc' = v.exc
    /\ pc' = "visited"
    /\ UNCHANGED <<text, lexer, curr_token, tree, out, calls>>

EvalNext == VisitTree

EvalSpec == EvalInit /\ [][EvalNext]_vars

\* some Div node of the tree has a right operand that evaluates to 0
RECURSIVE DivByZeroInside(_)
DivByZeroInside(t) ==
    IF t.class = "UnaryOperator" THEN DivByZeroInside(t.expression)
    ELSE IF t.class = "BinaryOperator"
    THEN \/ DivByZeroInside(t.left)
         \/ DivByZeroInside(t.right)
         \/ (t.operator.type = DIV /\ visit(t.right) = VReturned(PyInt(0)))
    ELSE FALSE

\* C5: a well-formed tree with a Div node whose right operand evaluates to 0
\* evaluates to the division-by-zero outcome (the exit of the handler), never
\* to a value, whatever encloses the Div node.
C5_DivisionByZeroPropagates ==
    (pc = "visited" /\ DivByZeroInside(tree))
        => (exc = SystemExit /\ re = PyNone)

\* 0 * (1 / 0) has been evaluated, to the exit
C5_Witness ==
    /\ pc = "visited"
    /\ tree = BinaryOperator(Numbers(Token(INTEGER, 0)), OpToken(MUL),
                  BinaryOperator(Numbers(Token(INTEGER, 1)), OpToken(DIV),
                                 Numbers(Token(INTEGER, 0))))
    /\ exc = SystemExit

\* q is the floor of l / r: the largest integer with q * r on the side of l
\* that the sign of r gives
IsFloor(q, l, r) ==
    IF r > 0 THEN q * r <= l /\ l < q * r + r
             ELSE q * r >= l /\ l > q * r + r

\* C6: a Div node whose children evaluate to the integers l and r, r # 0,
\* evaluates to floor(l / r), rounding toward negative infinity.
C6_FloorDivision ==
    (/\ pc = "visited"
     /\ tree.class = "BinaryOperator"
     /\ tree.operator.type = DIV
     /\ visit(tree.left).exc = NoExc
     /\ visit(tree.right).exc = NoExc
     /\ visit(tree.right).value.int # 0)
        => /\ exc = NoExc
           /\ re.type = "int"
           /\ IsFloor(re.int, visit(tree.left).value.int, visit(tree.right).value.int)

\* (-3) / 2 has been evaluated to -2
C6_Witness ==
    /\ pc = "visited"
    /\ tree = BinaryOperator(UnaryOperator(OpToken(MINUS), Numbers(Token(INTEGER, 3))),
                             OpToken(DIV), Numbers(Token(INTEGER, 2)))
    /\ re = PyInt(-2)

-----------------------------------------------------------------------------
(* Reference semantics of the expression grammar, on token sequences *)

\* a + or - is a binary operator when an operand ends right before it
IsBinaryAt(ts, i) == i > 1 /\ ts[i - 1].type \in {INTEGER, R_PAR}

\* positions of the binary operators of the given kinds outside all parentheses
TopLevel(ts, kinds) ==
    {i \in 1..Len(ts) : ts[i].type \in kinds /\ IsBinaryAt(ts, i) /\ Depth(ts, i) = 0}

Last(S) == CHOOSE i \in S : \A j \in S : j <= i

RefInvalid == [ok |-> FALSE, dz |-> FALSE, v |-> 0]

RefDivZero == [ok |-> TRUE, dz |-> TRUE, v |-> 0]

RefValue(v) == [ok |-> TRUE, dz |-> FALSE, v |-> v]

\* floor(l / r) for r # 0: the quotient q of the pair (q, m) with l = q * r + m
\* and m between 0 and r (0 included, r excluded)
RefFloor(l, r) == IF r > 0 THEN l \div r ELSE (-l) \div (-r)

RefApply(op, l, r) ==
    IF ~l.ok \/ ~r.ok THEN RefInvalid
    ELSE IF l.dz \/ r.dz THEN RefDivZero
    ELSE IF op = PLUS THEN RefValue(l.v + r.v)
    ELSE IF op = MINUS THEN RefValue(l.v - r.v)
    ELSE IF op = MUL THEN RefValue(l.v * r.v)
    ELSE IF r.v = 0 THEN RefDivZero
    ELSE RefValue(RefFloor(l.v, r.v))

RefNegate(op, e) ==
    IF ~e.ok \/ e.dz THEN e
    ELSE IF op = MINUS THEN RefValue(-e.v) ELSE e

\* The value of a token sequence: binary + and - bind loosest and group to the
\* left, then * and /, then the unary signs; parentheses group.
RECURSIVE RefEval(_)
RefEval(ts) ==
    LET n == Len(ts)
        add == TopLevel(ts, {PLUS, MINUS})
        mul == TopLevel(ts, {MUL, DIV})
    IN  IF n = 0 THEN RefInvalid
        ELSE IF add # {}
        THEN RefApply(ts[Last(add)].type,
                      RefEval(SubSeq(ts, 1, Last(add) - 1)),
                      RefEval(SubSeq(ts, Last(add) + 1, n)))
        ELSE IF mul # {}
        THEN RefApply(ts[Last(mul)].type,
                      RefEval(SubSeq(ts, 1, Last(mul) - 1)),
                      RefEval(SubSeq(ts, Last(mul) + 1, n)))
        ELSE IF ts[1].type \in {PLUS, MINUS}
        THEN RefNegate(ts[1].type, RefEval(SubSeq(ts, 2, n)))
        ELSE IF ts[1].type = INTEGER
        THEN IF n = 1 THEN RefValue(ts[1].content) ELSE RefInvalid
        ELSE IF ts[1].type = L_PAR /\ ts[n].type = R_PAR
        THEN RefEval(SubSeq(ts, 2, n - 1))
        ELSE RefInvalid

-----------------------------------------------------------------------------
(* main() handed a well-formed expression: one pass of the loop body *)

\* the lines of at most n digits, operators and parentheses that the grammar derives
WellFormedTexts(n) == {t \in TextsOver(ExprAlphabet, n) : RefEval(Tokens(t)).ok}

ExprInit ==
    /\ pc = "Lexer"
    /\ text \in WellFormedTexts(MaxExprLen)
    /\ lexer = NoLexer
    /\ curr_token = NoToken
    /\ tree = NoneNode
    /\ re = PyNone
    /\ exc = NoExc
    /\ out = NoOutput
    /\ calls = 0

ExprNext ==
    \/ MakeLexer
    \/ MakeParser
    \/ InterpretParse
    \/ InterpretVisit
    \/ PrintResult

ExprSpec == ExprInit /\ [][ExprNext]_vars

====
